---------------------------- MODULE Spec2Model ----------------------------
(***************************************************************************)
(* Real-time inventory synchronisation: server.ts (Source Reader, Change   *)
(* Watcher, Broadcast Channel) and the AppProvider client reconciler.      *)
(*                                                                         *)
(* JavaScript values are modelled as records [t, str, nan, h]:             *)
(*   t = "str"   a string cell, its text in str                            *)
(*   t = "num"   a number cell; nan marks NaN, otherwise h is the value in *)
(*               hundredths (120 is h = 12000, 30.50 is h = 3050)          *)
(*   t = "undef" undefined                                                 *)
(* A raw row (one object of sheet_to_json) is a sequence of <<key, value>> *)
(* pairs in the object's key order.                                        *)
(***************************************************************************)
EXTENDS Integers, Sequences, FiniteSets, TLC

S(s)   == [t |-> "str", str |-> s, nan |-> FALSE, h |-> 0]
NumH(x) == [t |-> "num", str |-> "", nan |-> FALSE, h |-> x]
N(w)   == NumH(w * 100)
NaN    == [t |-> "num", str |-> "", nan |-> TRUE, h |-> 0]
Undef  == [t |-> "undef", str |-> "", nan |-> FALSE, h |-> 0]

(***************************************************************************)
(* Strings of the model.  TLC strings are atomic, so the two string        *)
(* functions the normalizer uses are tabulated over the strings that occur *)
(* in the modelled files.                                                  *)
(***************************************************************************)

\* k.toLowerCase().trim()
LowerTrim(k) ==
    CASE k = "Name"     -> "name"
      [] k = "QTY"      -> "qty"
      [] k = " Qty "    -> "qty"
      [] k = "Price"    -> "price"
      [] k = "Quantity" -> "quantity"
      [] k = "ID"       -> "id"
      [] k = "Status"   -> "status"
      [] k = "dateAdded" -> "dateadded"
      [] OTHER          -> k

\* Number(s) for a string s: the decimal strings of the model parse to their
\* value, blank strings to 0, everything else to NaN.
StringToNumber(s) ==
    CASE s = "0"      -> NumH(0)
      [] s = "75"     -> NumH(7500)
      [] s = "12.5"   -> NumH(1250)
      [] s = "-3"     -> NumH(-300)
      [] s = " "      -> NumH(0)
      [] s = ""       -> NumH(0)
      [] OTHER        -> NaN

Digit(d) ==
    CASE d = 0 -> "0" [] d = 1 -> "1" [] d = 2 -> "2" [] d = 3 -> "3"
      [] d = 4 -> "4" [] d = 5 -> "5" [] d = 6 -> "6" [] d = 7 -> "7"
      [] d = 8 -> "8" [] d = 9 -> "9"

RECURSIVE NatToString(_)
NatToString(n) ==
    IF n < 10 THEN Digit(n) ELSE NatToString(n \div 10) \o Digit(n % 10)

\* String(x) for a number x given in hundredths
NumberToString(x) ==
    LET a     == IF x < 0 THEN 0 - x ELSE x
        whole == a \div 100
        frac  == a % 100
        sign  == IF x < 0 THEN "-" ELSE ""
        tail  == IF frac = 0 THEN ""
                 ELSE IF frac % 10 = 0 THEN "." \o Digit(frac \div 10)
                 ELSE "." \o Digit(frac \div 10) \o Digit(frac % 10)
    IN  sign \o NatToString(whole) \o tail

\* JavaScript truthiness: undefined, "", 0 and NaN are falsy
Truthy(v) ==
    \/ v.t = "str" /\ v.str # ""
    \/ v.t = "num" /\ ~v.nan /\ v.h # 0

\* String(v)
ToStr(v) ==
    IF v.t = "str" THEN v.str
    ELSE IF v.t = "undef" THEN "undefined"
    ELSE IF v.nan THEN "NaN"
    ELSE NumberToString(v.h)

\* Number(v), as a [nan, h] pair
ToNum(v) ==
    LET r == IF v.t = "num" THEN v
             ELSE IF v.t = "undef" THEN NaN
             ELSE StringToNumber(v.str)
    IN  [nan |-> r.nan, h |-> r.h]

(***************************************************************************)
(* Record Normalizer (client side)                                         *)
(***************************************************************************)

\* a variant whose second boundary is off by one
getStatusFromQuantityBelow(q) ==
    IF ~q.nan /\ q.h = 0 THEN "Out of Stock"
    ELSE IF ~q.nan /\ q.h < 5000 THEN "Low Stock"
    ELSE "In Stock"

\* getStatusFromQuantity: every comparison with NaN is false
getStatusFromQuantity(q) ==
    IF ~q.nan /\ q.h = 0 THEN "Out of Stock"
    ELSE IF ~q.nan /\ q.h <= 5000 THEN "Low Stock"
    ELSE "In Stock"

IdKeys       == {"id", "pid", "product id", "item id"}
NameKeys     == {"name", "product name", "item name", "product"}
CategoryKeys == {"category", "type", "group"}
QuantityKeys == {"quantity", "qty", "stock", "amount"}
PriceKeys    == {"price", "cost", "unit price", "rate"}
SupplierKeys == {"supplier", "vendor", "source", "manufacturer"}
DateKeys     == {"dateadded", "date", "added", "created"}

\* findValue: the value under the first key OF THE ROW whose lower-cased,
\* trimmed form is one of keys; undefined when there is none
findValue(item, keys) ==
    LET hits == {i \in 1..Len(item) : LowerTrim(item[i][1]) \in keys}
    IN  IF hits = {} THEN Undef
        ELSE item[CHOOSE i \in hits : \A j \in hits : i <= j][2]

OrStr(v, d) == ToStr(IF Truthy(v) THEN v ELSE S(d))
OrNum(v)    == ToNum(IF Truthy(v) THEN v ELSE NumH(0))

\* a variant that keeps the status the row itself carries
NormalizeRowKeepStatus(item, date) ==
    LET quantity == OrNum(findValue(item, QuantityKeys))
        status   == findValue(item, {"status"})
    IN  [id        |-> OrStr(findValue(item, IdKeys), ""),
         name      |-> OrStr(findValue(item, NameKeys), "Unknown Product"),
         category  |-> OrStr(findValue(item, CategoryKeys), "Uncategorized"),
         quantity  |-> quantity,
         price     |-> OrNum(findValue(item, PriceKeys)),
         supplier  |-> OrStr(findValue(item, SupplierKeys), "Unknown Supplier"),
         status    |-> IF Truthy(status) THEN ToStr(status)
                       ELSE getStatusFromQuantity(quantity),
         dateAdded |-> OrStr(findValue(item, DateKeys), date)]

\* the body of data.map(...): one raw row to one Product
NormalizeRow(item, date) ==
    LET quantity == OrNum(findValue(item, QuantityKeys))
    IN  [id        |-> OrStr(findValue(item, IdKeys), ""),
         name      |-> OrStr(findValue(item, NameKeys), "Unknown Product"),
         category  |-> OrStr(findValue(item, CategoryKeys), "Uncategorized"),
         quantity  |-> quantity,
         price     |-> OrNum(findValue(item, PriceKeys)),
         supplier  |-> OrStr(findValue(item, SupplierKeys), "Unknown Supplier"),
         status    |-> getStatusFromQuantity(quantity),
         dateAdded |-> OrStr(findValue(item, DateKeys), date)]

\* a variant that leaves out the rows that have no id
NormalizeAllWithId(data, date) ==
    LET hasId(item) == Truthy(findValue(item, IdKeys))
        kept        == SelectSeq(data, hasId)
    IN  [i \in 1..Len(kept) |-> NormalizeRow(kept[i], date)]

\* data.map(...) over the whole payload
NormalizeAll(data, date) ==
    [i \in 1..Len(data) |-> NormalizeRow(data[i], date)]


(***************************************************************************)
(* Files                                                                   *)
(***************************************************************************)

\* bounds of the model: how often the watched file is replaced (a save, an
\* upload, a test-sync) and how often a client connects
MaxWrites   == 1
MaxConnects == 1
Clients     == {"c1", "c2"}
\* new Date().toISOString().split('T')[0] at the time a snapshot is handled
Dates       == {"2024-03-01"}

Row(id, name, category, quantity, price, supplier, dateAdded) ==
    << <<"id", S(id)>>, <<"name", S(name)>>, <<"category", S(category)>>,
       <<"quantity", NumH(quantity)>>, <<"price", NumH(price)>>,
       <<"supplier", S(supplier)>>, <<"dateAdded", S(dateAdded)>> >>

\* ws_data of the sample workbook, as sheet_to_json returns it
SampleRows ==
    << Row("PID-001", "Quantum Processor", "Electronics", 12000, 25000, "SynthCore", "2023-10-15"),
       Row("PID-002", "Hydrogel Packs", "Medical", 4500, 3050, "BioGen", "2023-11-02"),
       Row("PID-003", "Carbon Nanotubes", "Materials", 0, 120000, "NanoWorks", "2023-09-20"),
       Row("PID-004", "Ionic Power Cells", "Energy", 20000, 15075, "Voltacorp", "2023-11-10"),
       Row("PID-005", "Data Crystal Shards", "Electronics", 50000, 7500, "SynthCore", "2023-08-01"),
       Row("PID-006", "Auto-Suture Kits", "Medical", 1500, 5520, "BioGen", "2023-11-18"),
       Row("PID-007", "Graphene Sheets", "Materials", 30000, 80000, "NanoWorks", "2023-10-05") >>

\* rows an operator's spreadsheet may hold
RowWidget == << <<"Name", S("Widget")>>, <<"QTY", S("0")>> >>
RowGadget == << <<"product", S("Gadget")>>, <<"stock", S("75")>>, <<"Price", S("$12.50")>> >>
RowBolt   == << <<"ID", N(7)>>, <<"Name", S("Bolt")>>, <<" Qty ", N(50)>>, <<"cost", NumH(1250)>> >>

\* the decoded contents the watched file takes when it is saved or uploaded
Contents == { <<>>, <<RowWidget, RowGadget>> }

NoFile      == [exists |-> FALSE, kind |-> "none",    rows |-> <<>>, ver |-> 0]
ValidFile(rows, v) == [exists |-> TRUE, kind |-> "valid", rows |-> rows, ver |-> v]
\* bytes XLSX.read cannot decode
CorruptFile(v) == [exists |-> TRUE, kind |-> "corrupt", rows |-> <<>>, ver |-> v]
\* an upload in progress: a truncated archive, which cannot be decoded
PartialFile(v) == [exists |-> TRUE, kind |-> "partial", rows |-> <<>>, ver |-> v]

\* what a save or an upload may put at the watched path
Saved(v) == {ValidFile(r, v) : r \in Contents} \cup {CorruptFile(v)}

(***************************************************************************)
(* Source Reader                                                           *)
(***************************************************************************)

\* the body of the try block: readFileSync, XLSX.read, sheet_to_json
TryRead(f) ==
    IF ~f.exists THEN [threw |-> FALSE, failed |-> TRUE, rows |-> <<>>]
    ELSE IF f.kind = "valid" THEN [threw |-> FALSE, failed |-> FALSE, rows |-> f.rows]
    ELSE [threw |-> TRUE, failed |-> TRUE, rows |-> <<>>]

\* readExcelData without its catch clause
readExcelDataNoCatch(f) == TryRead(f)

\* readExcelData: threw tells whether an exception escapes, failed whether the
\* path was missing or the decode failed, rows is the returned array
readExcelData(f) ==
    LET r == TryRead(f)
    IN  IF r.threw THEN [threw |-> FALSE, failed |-> TRUE, rows |-> <<>>] ELSE r

(***************************************************************************)
(* State                                                                   *)
(***************************************************************************)
VARIABLES
    file,       \* the watched path data/inventory.xlsx
    phase,      \* "down", "up" (startServer has run) or "crashed"
    watch,      \* chokidar: [ready, seenVer], the last modification it saw
    running,    \* the server callbacks that have started and not returned
    upload,     \* TRUE while multer is writing an uploaded file
    sockets,    \* clients with a live socket
    channel,    \* per client, the inventory_update events in flight
    products,   \* per client, AppProvider's products
    isSynced,   \* per client, AppProvider's isSynced
    log,        \* history: counters and tags of what was produced and applied
    arg,        \* the argument of a function applied on its own
    result      \* and what it returned

vars == <<file, phase, watch, running, upload, sockets, channel,
          products, isSynced, log, arg, result>>


\* products before the first applied snapshot (MOCK_PRODUCTS of ../constants)
MOCK_PRODUCTS ==
    << [id |-> "PID-001", name |-> "Mock Item", category |-> "Electronics",
        quantity |-> [nan |-> FALSE, h |-> 1000], price |-> [nan |-> FALSE, h |-> 9900],
        supplier |-> "MockCo", status |-> "Low Stock", dateAdded |-> "2023-01-01"] >>

NoClient == "none"

\* nothing running, nobody connected
Idle ==
    /\ running = {}
    /\ upload = FALSE
    /\ sockets = {}
    /\ channel = [c \in Clients |-> <<>>]
    /\ products = [c \in Clients |-> MOCK_PRODUCTS]
    /\ isSynced = [c \in Clients |-> FALSE]
    /\ log = [writes |-> 0, connects |-> 0, cycled |-> FALSE, failed |-> FALSE,
              applied  |-> [c \in Clients |-> 0],
              lastVer  |-> [c \in Clients |-> 0]]

Init ==
    /\ file = NoFile
    /\ phase = "down"
    /\ watch = [ready |-> FALSE, seenVer |-> 0, scanVer |-> 0]
    /\ Idle
    /\ arg = <<>>
    /\ result = <<>>

(***************************************************************************)
(* The environment: whoever edits the spreadsheet                           *)
(***************************************************************************)

\* README: open data/inventory.xlsx in a spreadsheet editor, modify, save;
\* before the first start the operator may also put a workbook there
EditorSave ==
    /\ log.writes < MaxWrites
    /\ file' \in Saved(file.ver + 1)
    /\ log' = [log EXCEPT !.writes = @ + 1]
    /\ UNCHANGED <<arg, result, phase, watch, running, upload, sockets, channel,
                   products, isSynced>>

(***************************************************************************)
(* Server                                                                  *)
(***************************************************************************)

\* Node runs one callback at a time to completion: the handlers below are
\* synchronous functions, so one starts only when none is in progress
CanStartAnyTime == TRUE
CanStart == running = {}

ServerUp == phase = "up"

\* a callback in progress: the handler h (for the watcher, of the change seen
\* at modification mark), the socket c it serves, where it stands (pc), and
\* what its readExcelData() returned
Frame(h, mark, c) ==
    [h |-> h, mark |-> mark, pc |-> "read", c |-> c,
     rows |-> <<>>, failed |-> FALSE, ver |-> 0]

\* module level and startServer: create the sample workbook when the path is
\* missing, create the watcher, register the handlers, listen
StartServer ==
    /\ phase = "down"
    /\ phase' = "up"
    /\ file' = IF file.exists THEN file ELSE ValidFile(SampleRows, file.ver + 1)
    /\ UNCHANGED <<arg, result, watch, running, upload, sockets, channel,
                   products, isSynced, log>>

\* a server that listens to no watcher event
NoListeners == {}

\* the events the server listens to on the watcher
WatcherListeners == {"change"}

\* watcher.emit(ev): run the listener of ev, if there is one
WatcherEmit(ev) ==
    IF ev \in WatcherListeners
    THEN /\ running' = running \cup {Frame("watch", file.ver, NoClient)}
         /\ log' = [log EXCEPT !.cycled = TRUE]
    ELSE UNCHANGED <<arg, result, running, log>>

\* chokidar.watch(..., ignoreInitial: false): the initial scan reports the
\* existing file with an add event
WatcherScan ==
    /\ ServerUp /\ ~watch.ready /\ CanStart
    /\ watch' = [ready |-> TRUE, seenVer |-> file.ver, scanVer |-> file.ver]
    /\ WatcherEmit("add")
    /\ UNCHANGED <<arg, result, file, phase, upload, sockets, channel,
                   products, isSynced>>

\* usePolling, interval 100: a poll that finds the modification time changed
\* reports a change event
PollTick ==
    /\ ServerUp /\ watch.ready /\ CanStart
    /\ file.ver # watch.seenVer
    /\ watch' = [watch EXCEPT !.seenVer = file.ver]
    /\ WatcherEmit("change")
    /\ UNCHANGED <<arg, result, file, phase, upload, sockets, channel,
                   products, isSynced>>

\* const updatedData = readExcelData() / readExcelData() as the argument of
\* socket.emit; an exception that escapes the handler ends the process
HandlerRead(f) ==
    /\ ServerUp /\ f \in running /\ f.pc = "read"
    /\ LET r == readExcelData(file)
       IN  IF r.threw
           THEN /\ phase' = "crashed"
                /\ running' = {}
                /\ log' = [log EXCEPT !.failed = TRUE]
           ELSE /\ phase' = phase
                /\ running' = (running \ {f}) \cup
                      {[f EXCEPT !.pc = "emit", !.rows = r.rows,
                                 !.failed = r.failed, !.ver = file.ver]}
                /\ log' = IF r.failed /\ f.h = "watch"
                          THEN [log EXCEPT !.failed = TRUE] ELSE log
    /\ UNCHANGED <<arg, result, file, watch, upload, sockets, channel,
                   products, isSynced>>

Payload(f) ==
    [rows |-> f.rows, ver |-> f.ver, failed |-> f.failed, src |-> f.h]

\* emit to the given sockets: the event is queued behind those in flight
Emit(ch, targets, p) ==
    [c \in Clients |-> IF c \in targets THEN Append(ch[c], p) ELSE ch[c]]

\* io.emit reaches every connected socket, socket.emit that socket only
Targets(f) == IF f.h = "watch" THEN sockets ELSE {f.c} \cap sockets

\* io.emit('inventory_update', updatedData) / socket.emit('inventory_update', ...)
HandlerEmit(f) ==
    /\ ServerUp /\ f \in running /\ f.pc = "emit"
    /\ channel' = Emit(channel, Targets(f), Payload(f))
    /\ running' = running \ {f}
    /\ UNCHANGED <<arg, result, file, phase, watch, upload, sockets, products, isSynced, log>>

\* a connection handler that sends nothing
ConnectSilently(c) ==
    /\ ServerUp /\ CanStart
    /\ c \notin sockets
    /\ log.connects < MaxConnects
    /\ sockets' = sockets \cup {c}
    /\ isSynced' = [isSynced EXCEPT ![c] = TRUE]
    /\ log' = [log EXCEPT !.connects = @ + 1]
    /\ UNCHANGED <<arg, result, file, phase, watch, running, upload, channel, products>>

\* io.on('connection'): a client's socket is established; the client's
\* connect handler sets isSynced
Connect(c) ==
    /\ ServerUp /\ CanStart
    /\ c \notin sockets
    /\ log.connects < MaxConnects
    /\ sockets' = sockets \cup {c}
    /\ isSynced' = [isSynced EXCEPT ![c] = TRUE]
    /\ running' = running \cup {Frame("conn", 0, c)}
    /\ log' = [log EXCEPT !.connects = @ + 1]
    /\ UNCHANGED <<arg, result, file, phase, watch, upload, channel, products>>

\* the socket closes: events in flight are lost, the client's disconnect
\* handler clears isSynced
Disconnect(c) ==
    /\ c \in sockets
    /\ sockets' = sockets \ {c}
    /\ channel' = [channel EXCEPT ![c] = <<>>]
    /\ isSynced' = [isSynced EXCEPT ![c] = FALSE]
    /\ UNCHANGED <<arg, result, file, phase, watch, running, upload, products, log>>

(***************************************************************************)
(* HTTP routes                                                             *)
(***************************************************************************)

\* app.get('/api/inventory'): res.json(readExcelData()); nothing is written
GetInventory ==
    /\ ServerUp /\ CanStart
    /\ UNCHANGED vars

\* Math.floor(Math.random() * 500), sampled
RandomQuantities == {0, 51}

\* firstItem.quantity = newQty
SetQuantity(item, v) ==
    LET hits == {i \in 1..Len(item) : item[i][1] = "quantity"}
    IN  IF hits = {} THEN Append(item, <<"quantity", v>>)
        ELSE [i \in 1..Len(item) |-> IF i \in hits THEN <<"quantity", v>> ELSE item[i]]

RECURSIVE Headers(_, _)
\* json_to_sheet: the columns are the keys in the order they first appear
Headers(data, acc) ==
    IF data = <<>> THEN acc
    ELSE LET item == Head(data)
             new  == SelectSeq([i \in 1..Len(item) |-> item[i][1]],
                               LAMBDA k : \A j \in 1..Len(acc) : acc[j] # k)
         IN  Headers(Tail(data), acc \o new)

\* json_to_sheet, XLSX.write and a later sheet_to_json: every row comes back
\* with its cells in column order
SheetRoundTrip(data) ==
    LET hdr == Headers(data, <<>>)
        Cell(item, k) == LET i == CHOOSE i \in 1..Len(item) : item[i][1] = k
                         IN  item[i]
        Has(item, k)  == \E i \in 1..Len(item) : item[i][1] = k
    IN  [r \in 1..Len(data) |->
            LET item == data[r]
                cols == SelectSeq(hdr, LAMBDA k : Has(item, k))
            IN  [i \in 1..Len(cols) |-> Cell(item, cols[i])]]

\* app.post('/api/test-sync')
TestSync ==
    /\ ServerUp /\ CanStart
    /\ LET data == readExcelData(file).rows
       IN  IF Len(data) > 0
           THEN /\ log.writes < MaxWrites
                /\ \E newQty \in RandomQuantities :
                     LET firstItem == SetQuantity(data[1], N(newQty))
                         written   == [data EXCEPT ![1] = firstItem]
                     IN  /\ file' = ValidFile(SheetRoundTrip(written), file.ver + 1)
                /\ log' = [log EXCEPT !.writes = @ + 1]
           ELSE UNCHANGED <<arg, result, file, log>>   \* 400
    /\ UNCHANGED <<arg, result, phase, watch, running, upload, sockets, channel, products, isSynced>>

\* upload.single('file') with multer's diskStorage: the stream to
\* data/inventory.xlsx is opened, which truncates the watched file
UploadStart ==
    /\ ServerUp /\ CanStart
    /\ ~upload
    /\ log.writes < MaxWrites
    /\ upload' = TRUE
    /\ file' = PartialFile(file.ver + 1)
    /\ log' = [log EXCEPT !.writes = @ + 1]
    /\ UNCHANGED <<arg, result, phase, watch, running, sockets, channel, products, isSynced>>

\* an upload route that broadcasts the accepted file itself
UploadFinishAndEmit ==
    /\ ServerUp
    /\ upload
    /\ file' \in Saved(file.ver + 1)
    /\ upload' = FALSE
    /\ channel' = Emit(channel, sockets,
                       [rows |-> file'.rows, ver |-> file'.ver,
                        failed |-> file'.kind # "valid", src |-> "upload"])
    /\ UNCHANGED <<arg, result, phase, watch, running, sockets, products, isSynced, log>>

\* the stream's writes complete (they run off the JavaScript thread, so at
\* any time); the route handler then answers 200
UploadFinish ==
    /\ ServerUp
    /\ upload
    /\ file' \in Saved(file.ver + 1)
    /\ upload' = FALSE
    /\ UNCHANGED <<arg, result, phase, watch, running, sockets, channel, products, isSynced, log>>

\* app.post('/api/inventory/upload') without a file part: 400, nothing is written
UploadNoFile ==
    /\ ServerUp /\ CanStart
    /\ UNCHANGED vars

(***************************************************************************)
(* Client Reconciler                                                       *)
(***************************************************************************)

\* a variant that installs whatever arrives
InstallAlways(prev, syncedProducts) == syncedProducts
\* a variant that merges instead of replacing
InstallMerged(prev, syncedProducts) ==
    IF Len(syncedProducts) > 0 THEN prev \o syncedProducts ELSE prev

\* if (syncedProducts.length > 0) setProducts(syncedProducts)
Install(prev, syncedProducts) ==
    IF Len(syncedProducts) > 0 THEN syncedProducts ELSE prev

\* what socket.io may hand to the handler as data: an array of rows, an
\* object that wraps rows (as in { data: [...] }), or null
ArrayOf(rows)  == [kind |-> "array",  rows |-> rows]
ObjectOf(rows) == [kind |-> "object", rows |-> rows]
JsonNull       == [kind |-> "null",   rows |-> <<>>]

\* a test that lets everything through
IsAnything(data) == TRUE

\* Array.isArray(data)
IsArray(data) == data.kind = "array"

\* the body of the inventory_update handler: the products it leaves, given
\* the products before, the event's data and the day
onInventoryUpdate(prev, data, date) ==
    IF ~IsArray(data) THEN prev
    ELSE Install(prev, NormalizeAll(data.rows, date))

\* socket.on('connect_error'): an attempt to connect has failed
ConnectError(c) ==
    /\ c \notin sockets
    /\ isSynced' = [isSynced EXCEPT ![c] = FALSE]
    /\ UNCHANGED <<arg, result, file, phase, watch, running, upload, sockets,
                   channel, products, log>>

\* socket.on('inventory_update'): the oldest event in flight is handled
Deliver(c) ==
    /\ c \in sockets
    /\ channel[c] # <<>>
    /\ \E date \in Dates :
       LET p == Head(channel[c])
       IN  /\ products' = [products EXCEPT ![c] =
                              onInventoryUpdate(@, ArrayOf(p.rows), date)]
           /\ log' = [log EXCEPT !.lastVer[c] = p.ver,
                                 !.applied[c] = IF products'[c] # products[c] /\ @ < 2
                                                THEN @ + 1 ELSE @]
    /\ channel' = [channel EXCEPT ![c] = Tail(@)]
    /\ UNCHANGED <<arg, result, file, phase, watch, running, upload, sockets, isSynced>>

Next ==
    \/ EditorSave
    \/ StartServer
    \/ WatcherScan
    \/ PollTick
    \/ \E f \in running : HandlerRead(f)
    \/ \E f \in running : HandlerEmit(f)
    \/ GetInventory
    \/ TestSync
    \/ UploadStart
    \/ UploadFinish
    \/ UploadNoFile
    \/ \E c \in Clients : Connect(c)
    \/ \E c \in Clients : ConnectError(c)
    \/ \E c \in Clients : Disconnect(c)
    \/ \E c \in Clients : Deliver(c)

Spec == Init /\ [][Next]_vars

(***************************************************************************)
(* The Source Reader on its own: readExcelData applied to whatever may be  *)
(* found at the watched path                                               *)
(***************************************************************************)
MaxRows == 2

SeqsUpTo(set, n) == UNION {[1..k -> set] : k \in 0..n}

SheetRows == {SampleRows[i] : i \in 1..Len(SampleRows)}

\* no file, a workbook of up to MaxRows rows, bytes that are no workbook, or
\* a workbook that is still being written
FilesOnDisk ==
    {NoFile, CorruptFile(1), PartialFile(1)}
        \cup {ValidFile(rows, 1) : rows \in SeqsUpTo(SheetRows, MaxRows)}

ReaderInit ==
    /\ file \in FilesOnDisk
    /\ phase = "down"
    /\ watch = [ready |-> FALSE, seenVer |-> 0, scanVer |-> 0]
    /\ Idle
    /\ arg = <<>>
    /\ result = <<>>

\* a call of readExcelData(): it takes no argument and reads EXCEL_PATH
ReaderCall ==
    /\ result = <<>>
    /\ arg' = <<file>>
    /\ result' = <<readExcelData(file)>>
    /\ UNCHANGED <<file, phase, watch, running, upload, sockets, channel,
                   products, isSynced, log>>

ReaderNext == ReaderCall

ReaderSpec == ReaderInit /\ [][ReaderNext]_vars

(***************************************************************************)
(* The Client Reconciler on its own: AppProvider's four socket handlers    *)
(* under whatever events the socket may raise.  Here arg[c] records the    *)
(* last lifecycle event client c handled and the data of its last          *)
(* inventory_update.                                                       *)
(***************************************************************************)
MaxPayloadRows == 1

NoData == [kind |-> "none", rows |-> <<>>]

PayloadRows == {RowWidget, RowGadget}

Payloads ==
    {ArrayOf(rows)  : rows \in SeqsUpTo(PayloadRows, MaxPayloadRows)}
        \cup {ObjectOf(rows) : rows \in SeqsUpTo(PayloadRows, MaxPayloadRows)}
        \cup {JsonNull}

ClientInit ==
    /\ file = NoFile
    /\ phase = "down"
    /\ watch = [ready |-> FALSE, seenVer |-> 0, scanVer |-> 0]
    /\ Idle
    /\ arg = [c \in Clients |-> [last |-> "none", data |-> NoData]]
    /\ result = <<>>

\* socket.on('connect')
ClientConnect(c) ==
    /\ c \notin sockets
    /\ sockets' = sockets \cup {c}
    /\ isSynced' = [isSynced EXCEPT ![c] = TRUE]
    /\ arg' = [arg EXCEPT ![c].last = "connect"]
    /\ UNCHANGED <<result, file, phase, watch, running, upload, channel,
                   products, log>>

\* socket.on('connect_error')
ClientConnectError(c) ==
    /\ c \notin sockets
    /\ isSynced' = [isSynced EXCEPT ![c] = FALSE]
    /\ arg' = [arg EXCEPT ![c].last = "connect_error"]
    /\ UNCHANGED <<result, file, phase, watch, running, upload, sockets,
                   channel, products, log>>

\* a disconnect handler that also drops the records
ClientDisconnectAndClear(c) ==
    /\ c \in sockets
    /\ sockets' = sockets \ {c}
    /\ isSynced' = [isSynced EXCEPT ![c] = FALSE]
    /\ products' = [products EXCEPT ![c] = <<>>]
    /\ arg' = [arg EXCEPT ![c].last = "disconnect"]
    /\ UNCHANGED <<result, file, phase, watch, running, upload, channel, log>>

\* socket.on('disconnect')
ClientDisconnect(c) ==
    /\ c \in sockets
    /\ sockets' = sockets \ {c}
    /\ isSynced' = [isSynced EXCEPT ![c] = FALSE]
    /\ arg' = [arg EXCEPT ![c].last = "disconnect"]
    /\ UNCHANGED <<result, file, phase, watch, running, upload, channel,
                   products, log>>

\* socket.on('inventory_update') with the given data
ClientUpdate(c, data) ==
    /\ c \in sockets
    /\ arg' = [arg EXCEPT ![c].data = data]
    /\ \E date \in Dates :
          products' = [products EXCEPT ![c] = onInventoryUpdate(@, data, date)]
    /\ UNCHANGED <<result, file, phase, watch, running, upload, sockets,
                   channel, isSynced, log>>

ClientNext ==
    \E c \in Clients :
        \/ ClientConnect(c)
        \/ ClientConnectError(c)
        \/ ClientDisconnect(c)
        \/ \E data \in Payloads : ClientUpdate(c, data)

ClientSpec == ClientInit /\ [][ClientNext]_vars

(***************************************************************************)
(* The Record Normalizer on its own: the callback of data.map applied to   *)
(* one raw row                                                             *)
(***************************************************************************)

\* what a cell of a quantity or price column may hold
NumericCells ==
    {N(7), NumH(1250), N(-3), N(0), S("75"), S("abc"), S("$12.50")}

QuantityHeaders == {"Quantity", "QTY"}

\* the quantity columns of a row: none, one, or two under different headers
\* in either order
QuantityColumns ==
    {<<>>}
        \cup {<< <<k, v>> >> : k \in QuantityHeaders, v \in NumericCells}
        \cup {<< <<k[1], v[1]>>, <<k[2], v[2]>> >> :
                 k \in {<<"Quantity", "QTY">>, <<"QTY", "Quantity">>},
                 v \in NumericCells \X NumericCells}

PriceColumns == {<<>>} \cup {<< <<"Price", v>> >> : v \in NumericCells}

NameColumns == {<<>>, << <<"Name", S("Widget")>> >>}

\* a column of the sheet that holds a status of its own
StatusColumns ==
    {<<>>, << <<"Status", S("Out of Stock")>> >>, << <<"Status", S("In Stock")>> >>}

\* a row always has the cell of a column the normalizer does not know
RawRows ==
    {<< <<"Notes", S("n/a")>> >> \o n \o q \o p \o st :
        n \in NameColumns, q \in QuantityColumns, p \in PriceColumns,
        st \in StatusColumns}

\* the rows that may follow the first row of a payload
MaxMoreRows == 1

RowNote == << <<"Notes", S("n/a")>> >>

MoreRows == {RowNote, RowBolt}

\* the payloads handed to data.map: a first row and up to MaxMoreRows more
RawPayloads ==
    {<<item>> \o more :
        item \in RawRows, more \in SeqsUpTo(MoreRows, MaxMoreRows)}

NormalizerInit ==
    /\ file = NoFile
    /\ phase = "down"
    /\ watch = [ready |-> FALSE, seenVer |-> 0, scanVer |-> 0]
    /\ Idle
    /\ arg \in RawPayloads
    /\ result = <<>>

\* data.map over the payload arg: result[i] is the record of the row arg[i]
NormalizerCall ==
    /\ result = <<>>
    /\ \E date \in Dates : result' = NormalizeAll(arg, date)
    /\ UNCHANGED <<arg, file, phase, watch, running, upload, sockets, channel,
                   products, isSynced, log>>

NormalizerNext == NormalizerCall

NormalizerSpec == NormalizerInit /\ [][NormalizerNext]_vars

(***************************************************************************)
(* The round trip: a Product written as a row under the canonical headers  *)
(* and handed to the callback of data.map                                  *)
(***************************************************************************)

\* Products as the type allows them: strings may be empty, quantity is a
\* whole number from 0 on, price a number from 0 on
InventoryRecords ==
    {[id        |-> i, name |-> n, category |-> c,
      quantity  |-> [nan |-> FALSE, h |-> q],
      price     |-> [nan |-> FALSE, h |-> p],
      supplier  |-> u,
      status    |-> getStatusFromQuantity([nan |-> FALSE, h |-> q]),
      dateAdded |-> "2023-10-15"] :
        i \in {"", "PID-001"}, n \in {"", "Widget"}, c \in {"", "Tools"},
        q \in {0, 700, 5100}, p \in {0, 1250}, u \in {"", "Acme"}}

\* the row that holds the record's fields under the canonical headers
Encode(record) ==
    Row(record.id, record.name, record.category, record.quantity.h,
        record.price.h, record.supplier, record.dateAdded)

RoundTripInit ==
    /\ file = NoFile
    /\ phase = "down"
    /\ watch = [ready |-> FALSE, seenVer |-> 0, scanVer |-> 0]
    /\ Idle
    /\ arg \in {<<record>> : record \in InventoryRecords}
    /\ result = <<>>

\* the callback of data.map applied to the encoded record
RoundTripCall ==
    /\ result = <<>>
    /\ \E date \in Dates : result' = <<NormalizeRow(Encode(arg[1]), date)>>
    /\ UNCHANGED <<arg, file, phase, watch, running, upload, sockets, channel,
                   products, isSynced, log>>

RoundTripNext == RoundTripCall

RoundTripSpec == RoundTripInit /\ [][RoundTripNext]_vars

(***************************************************************************)
(* The inventory page of one client: snapshots are installed by the        *)
(* provider, records are edited and added by hand                          *)
(***************************************************************************)

\* the page stops adding when the table has this many records
MaxProducts == 4

PageClients == {"c1"}

\* snapshots the page may be handed: two rows without an id column, a row
\* whose id is a plain number, two rows of the sample workbook
PageSnapshots ==
    { <<RowWidget, RowGadget>>, <<RowBolt>>, <<SampleRows[1], SampleRows[2]>> }

\* NewProductData, what the add dialog submits
NewItems ==
    { [name |-> "Bracket", category |-> "Hardware",
       quantity |-> [nan |-> FALSE, h |-> 500],
       price |-> [nan |-> FALSE, h |-> 1250], supplier |-> "Acme"] }

\* the quantities the edit dialog may submit
EditQuantities == {0, 7500}

\* parseInt(id.split('-')[1], 10), tabulated over the ids of the model: the
\* part after the first dash, when it starts with digits
IdNumber(id) ==
    CASE id = "PID-001" -> [nan |-> FALSE, n |-> 1]
      [] id = "PID-002" -> [nan |-> FALSE, n |-> 2]
      [] id = "PID-003" -> [nan |-> FALSE, n |-> 3]
      [] id = "PID-004" -> [nan |-> FALSE, n |-> 4]
      [] id = "PID-005" -> [nan |-> FALSE, n |-> 5]
      [] id = "PID-006" -> [nan |-> FALSE, n |-> 6]
      [] id = "PID-007" -> [nan |-> FALSE, n |-> 7]
      [] OTHER          -> [nan |-> TRUE, n |-> 0]

\* Math.max(...existingIds): NaN as soon as one of them is NaN
MathMax(nums) ==
    IF \E i \in 1..Len(nums) : nums[i].nan THEN [nan |-> TRUE, n |-> 0]
    ELSE [nan |-> FALSE,
          n   |-> CHOOSE m \in {nums[i].n : i \in 1..Len(nums)} :
                     \A i \in 1..Len(nums) : nums[i].n <= m]

\* String(n).padStart(3, '0')
PadStart3(num) ==
    IF num.nan THEN "NaN"
    ELSE IF num.n < 10 THEN "00" \o NatToString(num.n)
    ELSE IF num.n < 100 THEN "0" \o NatToString(num.n)
    ELSE NatToString(num.n)

\* the id handleAddItem makes up for the record it adds
NewId(prods) ==
    LET existingIds == [i \in 1..Len(prods) |-> IdNumber(prods[i].id)]
        top         == IF Len(existingIds) > 0 THEN MathMax(existingIds)
                       ELSE [nan |-> FALSE, n |-> 0]
        newIdNumber == [nan |-> top.nan, n |-> IF top.nan THEN 0 ELSE top.n + 1]
    IN  "PID-" \o PadStart3(newIdNumber)

\* the place of an id in the order of localeCompare, over the ids of the
\* model: the empty string, then digits, then PID-001, PID-002, ..., PID-NaN
IdRank(id) ==
    CASE id = ""        -> 0
      [] id = "7"       -> 1
      [] id = "PID-NaN" -> 100
      [] OTHER          -> 1 + IdNumber(id).n

\* [...].sort((a, b) => a.id.localeCompare(b.id)): a stable sort by id
RECURSIVE SortById(_)
SortById(prods) ==
    IF prods = <<>> THEN <<>>
    ELSE LET n    == Len(prods)
             init == SortById(SubSeq(prods, 1, n - 1))
             x    == prods[n]
             k    == Cardinality({i \in 1..Len(init) :
                                     IdRank(init[i].id) <= IdRank(x.id)})
         IN  SubSeq(init, 1, k) \o <<x>> \o SubSeq(init, k + 1, Len(init))

PageInit ==
    /\ file = NoFile
    /\ phase = "down"
    /\ watch = [ready |-> FALSE, seenVer |-> 0, scanVer |-> 0]
    /\ Idle
    /\ arg = <<>>
    /\ result = <<>>

\* the provider handles an inventory_update with these rows
PageSnapshot(c, data) ==
    /\ \E date \in Dates :
          products' = [products EXCEPT ![c] =
                          onInventoryUpdate(@, ArrayOf(data), date)]
    /\ UNCHANGED <<arg, result, file, phase, watch, running, upload, sockets,
                   channel, isSynced, log>>

\* handleAddItem(newItemData)
handleAddItem(c, newItemData) ==
    /\ Len(products[c]) < MaxProducts
    /\ \E date \in Dates :
          LET newProduct ==
                 [id        |-> NewId(products[c]),
                  name      |-> newItemData.name,
                  category  |-> newItemData.category,
                  quantity  |-> newItemData.quantity,
                  price     |-> newItemData.price,
                  supplier  |-> newItemData.supplier,
                  status    |-> getStatusFromQuantity(newItemData.quantity),
                  dateAdded |-> date]
          IN  products' = [products EXCEPT ![c] = SortById(Append(@, newProduct))]
    /\ UNCHANGED <<arg, result, file, phase, watch, running, upload, sockets,
                   channel, isSynced, log>>

\* what the edit dialog submits for a displayed record: the record with a
\* new quantity
Edited(p, q) == [p EXCEPT !.quantity = [nan |-> FALSE, h |-> q]]

\* handleUpdateItem(updatedProduct)
handleUpdateItem(c, updatedProduct) ==
    /\ products' = [products EXCEPT ![c] =
          [j \in 1..Len(@) |->
              IF @[j].id = updatedProduct.id
              THEN [updatedProduct EXCEPT
                       !.status = getStatusFromQuantity(updatedProduct.quantity)]
              ELSE @[j]]]
    /\ UNCHANGED <<arg, result, file, phase, watch, running, upload, sockets,
                   channel, isSynced, log>>

PageNext ==
    \E c \in PageClients :
        \/ \E data \in PageSnapshots : PageSnapshot(c, data)
        \/ \E item \in NewItems : handleAddItem(c, item)
        \/ \E i \in 1..Len(products[c]) : \E q \in EditQuantities :
              handleUpdateItem(c, Edited(products[c][i], q))

PageSpec == PageInit /\ [][PageNext]_vars

(***************************************************************************)
(* getStatusFromQuantity on its own, applied to the integers from 0 on     *)
(***************************************************************************)
MaxQuantity == 60

StatusInit ==
    /\ file = NoFile
    /\ phase = "down"
    /\ watch = [ready |-> FALSE, seenVer |-> 0, scanVer |-> 0]
    /\ Idle
    /\ arg \in {<<q>> : q \in 0..MaxQuantity}
    /\ result = <<>>

StatusCall ==
    /\ result = <<>>
    /\ result' = <<getStatusFromQuantity([nan |-> FALSE, h |-> arg[1] * 100])>>
    /\ UNCHANGED <<arg, file, phase, watch, running, upload, sockets, channel,
                   products, isSynced, log>>

StatusNext == StatusCall

StatusSpec == StatusInit /\ [][StatusNext]_vars


(***************************************************************************)
(* Properties                                                              *)
(***************************************************************************)

\* the step in which client c handles the oldest inventory_update in flight
Handles(c) ==
    /\ c \in sockets /\ c \in sockets'
    /\ channel[c] # <<>>
    /\ channel'[c] = Tail(channel[c])

\* C1: a client that handles a non-empty array payload holds, afterwards,
\* exactly the normalized rows of that payload in the payload's order:
\* nothing of what it held before is left, whatever snapshot came before
C1_SnapshotReplaces ==
    [][\A c \in Clients :
          (Handles(c) /\ Len(Head(channel[c]).rows) > 0)
          => \E date \in Dates :
                products'[c] = NormalizeAll(Head(channel[c]).rows, date)]_vars

\* a client has applied two snapshots in a row, each changing its products,
\* and now holds the two normalized rows of the operator's workbook
C1_Witness ==
    \E c \in Clients :
        /\ log.applied[c] = 2
        /\ \E date \in Dates :
              products[c] = NormalizeAll(<<RowWidget, RowGadget>>, date)

\* C2: a client whose products are non-empty and that handles an empty array
\* payload has the same products afterwards
C2_EmptySnapshotGuard ==
    [][\A c \in Clients :
          (Handles(c) /\ Head(channel[c]).rows = <<>> /\ products[c] # <<>>)
          => products'[c] = products[c]]_vars

\* a client has handled the snapshot of the current, decodable but empty,
\* workbook and still holds products
C2_Witness ==
    \E c \in Clients :
        /\ c \in sockets /\ channel[c] = <<>>
        /\ file.kind = "valid" /\ file.rows = <<>>
        /\ log.lastVer[c] = file.ver
        /\ products[c] # <<>>


\* the step in which the callback f returns
Returns(f) == f \in running /\ f \notin running' /\ phase' = "up"

C4_StartupCycle == watch.ready => log.cycled

\* C6: while a watcher cycle is in progress no other server callback is, in
\* particular no second cycle; and a cycle about to emit holds the rows that
\* its one read returned
C6_CyclesSerialized ==
    \A f \in running :
        /\ f.h = "watch" => running = {f}
        /\ (f.h = "watch" /\ f.pc = "emit" /\ f.ver = file.ver)
           => /\ f.rows = readExcelData(file).rows
              /\ f.failed = readExcelData(file).failed

\* a cycle is between its read and its emit while the file has changed again:
\* the next change is waiting for the poll that follows
C6_Witness ==
    \E f \in running :
        /\ f.h = "watch" /\ f.pc = "emit"
        /\ file.ver # watch.seenVer


\* nothing is left to do for the poll timer, the running callbacks, the
\* upload stream and the network: under fair scheduling of these, a behaviour
\* in which the file stops changing reaches such a state and stays in it
Quiescent ==
    /\ phase = "up" /\ watch.ready /\ watch.seenVer = file.ver
    /\ running = {} /\ ~upload
    /\ \A c \in Clients : channel[c] = <<>>

\* the content now in the file was saved after the watcher's start-up scan
SavedWhileWatched == watch.ready /\ file.ver > watch.scanVer

\* client c holds the normalization of the rows now in the file
HoldsCurrent(c) ==
    \E date \in Dates : products[c] = NormalizeAll(readExcelData(file).rows, date)

C7_WatcherSurvives ==
    [][/\ log.failed' => phase' = "up"
       /\ (log.failed /\ running = {} /\ file.ver # watch.seenVer)
          => ENABLED PollTick
       /\ (log.failed /\ watch'.seenVer # watch.seenVer)
          => \E f \in running' : f.h = "watch" /\ f.pc = "read"
       /\ \A f \in running :
             (log.failed /\ f.h = "watch" /\ f.pc = "read" /\ f \notin running')
             => \E g \in running' :
                   /\ g.h = "watch" /\ g.pc = "emit" /\ g.ver = file.ver
                   /\ file.kind = "valid" => (~g.failed /\ g.rows = file.rows)
       /\ \A f \in running :
             (log.failed /\ f.h = "watch" /\ f.pc = "emit" /\ f \notin running')
             => \A c \in sockets :
                   /\ Len(channel'[c]) = Len(channel[c]) + 1
                   /\ channel'[c][Len(channel'[c])] = Payload(f)]_vars

\* a client has in flight the empty snapshot of a cycle whose read failed and,
\* behind it, the rows of the cycle that followed the next, valid, write
C7_Witness ==
    \E c \in sockets :
        \E i, j \in 1..Len(channel[c]) :
            /\ i < j
            /\ channel[c][i].src = "watch" /\ channel[c][i].failed
            /\ channel[c][j].src = "watch" /\ ~channel[c][j].failed
            /\ channel[c][j].rows # <<>>
            /\ channel[c][j].rows = file.rows

\* C8: readExcelData returns the empty array when the watched path does not
\* exist and when the file there cannot be decoded, and no exception escapes
C8_ReaderNeverRaises ==
    result # <<>>
    => /\ ~result[1].threw
       /\ arg[1].kind # "valid" => result[1].rows = <<>>
       /\ arg[1].kind = "valid" => result[1].rows = arg[1].rows

\* readExcelData has returned from a file that is no workbook
C8_Witness ==
    /\ result # <<>>
    /\ arg[1].exists /\ arg[1].kind = "corrupt"
    /\ result[1].failed /\ result[1].rows = <<>>

\* C9: a client that handles the snapshot of a failed read keeps its products,
\* and no step other than handling the snapshot of a successful read of a
\* workbook with rows changes any client's products
C9_LastKnownGood ==
    [][\A c \in Clients :
          /\ (Handles(c) /\ Head(channel[c]).failed) => products'[c] = products[c]
          /\ products'[c] # products[c]
             => /\ Handles(c)
                /\ ~Head(channel[c]).failed
                /\ Head(channel[c]).rows # <<>>]_vars

\* a client that had applied a snapshot has handled the snapshot of the read
\* that failed on the file as it is now, and holds rows all the same
C9_Witness ==
    \E c \in sockets :
        /\ file.kind # "valid"
        /\ log.failed
        /\ log.applied[c] >= 1
        /\ log.lastVer[c] = file.ver /\ channel[c] = <<>>
        /\ products[c] # <<>> /\ products[c] # MOCK_PRODUCTS

\* C10: the snapshots in flight to a client are in the order of the reads
\* that produced them, a read that is yet to be emitted is no older than any
\* of them, and the snapshots a client handles never go back to an older
\* content of the file
C10_PerSubscriberOrder ==
    [][\A c \in Clients :
          /\ log.lastVer'[c] >= log.lastVer[c]
          /\ \A i, j \in 1..Len(channel[c]) :
                i < j => channel[c][i].ver <= channel[c][j].ver
          /\ channel[c] # <<>> => Head(channel[c]).ver >= log.lastVer[c]]_vars

\* a client has a connection-time snapshot and, behind it, a watcher cycle's
\* snapshot of a later content in flight
C10_Witness ==
    \E c \in sockets :
        /\ Len(channel[c]) >= 2
        /\ channel[c][1].src = "conn" /\ channel[c][2].src = "watch"
        /\ channel[c][1].ver < channel[c][2].ver

\* C11: no step of the upload route, with a file or without one, puts an
\* inventory_update in flight or starts a callback that would; an event gets
\* in flight only when a running callback emits the rows it has read; and
\* the route called without a file leaves the watched file as it is
C11_UploadDoesNotBroadcast ==
    [][/\ (UploadStart \/ UploadFinish \/ UploadNoFile)
          => (channel' = channel /\ running' = running)
       /\ UploadNoFile => file' = file
       /\ \A c \in Clients :
             Len(channel'[c]) > Len(channel[c])
             => \E f \in running :
                   /\ f.pc = "emit" /\ f \notin running'
                   /\ channel'[c] = Append(channel[c], Payload(f))]_vars

\* the upload route has accepted a request and opened the watched file while
\* a client is connected: nothing is running and nothing is in flight to it
C11_Witness ==
    \E c \in sockets :
        /\ upload /\ file.kind = "partial"
        /\ running = {} /\ channel[c] = <<>>
        /\ log.lastVer[c] > 0 /\ log.lastVer[c] < file.ver

\* C12: no server callback reads the watched file while an upload has it
\* partially written
C12_AtomicOverwrite ==
    [][\A f \in running :
          (f.pc = "read" /\ f \notin running') => file.kind # "partial"]_vars

\* the record p is the normalization of one of the rows
InSnapshot(p, rows) ==
    \E j \in 1..Len(rows) : \E date \in Dates : p = NormalizeRow(rows[j], date)

\* C13 as claimed: after a client has handled a snapshot, whatever snapshot,
\* every record it holds is the normalization of a row of that snapshot
C13_TotalReplacement ==
    [][\A c \in Clients :
          Handles(c)
          => \A i \in 1..Len(products'[c]) :
                InSnapshot(products'[c][i], Head(channel[c]).rows)]_vars

\* C13 amended: the same after a snapshot of at least one row
C13_ReplacementByRows ==
    [][\A c \in Clients :
          (Handles(c) /\ Head(channel[c]).rows # <<>>)
          => \A i \in 1..Len(products'[c]) :
                InSnapshot(products'[c][i], Head(channel[c]).rows)]_vars

\* a client that held the sample workbook's records has handled the snapshot
\* that followed a test-sync: the record of the old first row is gone
C13_Witness ==
    \E c \in sockets : \E date \in Dates :
        /\ log.applied[c] = 2
        /\ Len(products[c]) = Len(SampleRows)
        /\ NormalizeRow(SampleRows[1], date) \notin
              {products[c][i] : i \in 1..Len(products[c])}

\* C14: a client that handles an inventory_update whose data is not an array
\* has exactly the products it had before
C14_MalformedPayloadRejected ==
    [][\A c \in Clients : \A data \in Payloads :
          (data.kind # "array" /\ ClientUpdate(c, data))
          => products'[c] = products[c]]_vars

\* a client that had installed a snapshot has since handled an object that
\* wraps a different row, and still holds the snapshot
C14_Witness ==
    \E c \in sockets : \E date \in Dates :
        /\ arg[c].data.kind = "object"
        /\ arg[c].data.rows = <<RowGadget>>
        /\ products[c] = NormalizeAll(<<RowWidget>>, date)

\* C15: the connection state tells which kind of lifecycle event came last:
\* two clients whose last events differ are not in the same state
C15_StateIdentifiesLastEvent ==
    \A c, d \in Clients :
        (arg[c].last # "none" /\ arg[d].last # "none" /\ isSynced[c] = isSynced[d])
        => arg[c].last = arg[d].last

\* C16: connect, connect_error and disconnect leave every client's products
\* as they are, an inventory_update leaves every client's isSynced as it is,
\* and no step changes both of a client
C16_StateAndDataIndependent ==
    [][\A c \in Clients :
          /\ (ClientConnect(c) \/ ClientConnectError(c) \/ ClientDisconnect(c))
             => products' = products
          /\ \A data \in Payloads : ClientUpdate(c, data) => isSynced' = isSynced
          /\ isSynced'[c] # isSynced[c] => products'[c] = products[c]]_vars

\* a client that installed a snapshot has been disconnected and has then
\* failed to reconnect: it is not synced and holds the snapshot all the same
C16_Witness ==
    \E c \in Clients : \E date \in Dates :
        /\ arg[c].last = "connect_error"
        /\ ~isSynced[c]
        /\ arg[c].data = ArrayOf(<<RowGadget>>)
        /\ products[c] = NormalizeAll(<<RowGadget>>, date)

Zero == [nan |-> FALSE, h |-> 0]

\* the cell is absent, or holds text that is not a number
NotNumeric(v) == v.t = "undef" \/ (v.t = "str" /\ StringToNumber(v.str).nan)

\* C17: a quantity or price whose matched cell is absent or not numeric is
\* normalized to the number 0
C17_NumericCoercion ==
    result # <<>>
    => /\ NotNumeric(findValue(arg[1], QuantityKeys)) => result[1].quantity = Zero
       /\ NotNumeric(findValue(arg[1], PriceKeys)) => result[1].price = Zero

\* the quantity aliases in the order of the list given to findValue
QuantityAliases == <<"quantity", "qty", "stock", "amount">>

\* the value under the first alias, in list order, that a key of the row
\* matches
ByAliasOrder(item, aliases) ==
    LET hit(a)  == {i \in 1..Len(item) : LowerTrim(item[i][1]) = a}
        matched == {n \in 1..Len(aliases) : hit(aliases[n]) # {}}
    IN  IF matched = {} THEN Undef
        ELSE LET n == CHOOSE m \in matched : \A k \in matched : m <= k
             IN  item[CHOOSE i \in hit(aliases[n]) :
                         \A j \in hit(aliases[n]) : i <= j][2]

\* C18: the quantity is taken from the first alias of the ordered list that
\* matches a key of the row, whatever the order of the row's keys
C18_AliasOrder ==
    result # <<>>
    => result[1].quantity = OrNum(ByAliasOrder(arg[1], QuantityAliases))

\* C19: for an integer q from 0 on, getStatusFromQuantity returns one of the
\* three statuses: Out of Stock exactly when q = 0, Low Stock exactly when
\* 1 <= q <= 50, In Stock exactly when q >= 51
C19_StatusDerivation ==
    result # <<>>
    => /\ result[1] \in {"Out of Stock", "Low Stock", "In Stock"}
       /\ result[1] = "Out of Stock" <=> arg[1] = 0
       /\ result[1] = "Low Stock" <=> (1 <= arg[1] /\ arg[1] <= 50)
       /\ result[1] = "In Stock" <=> arg[1] >= 51

\* the status of 50, the last quantity that is Low Stock, has been computed
C19_Witness ==
    /\ result # <<>>
    /\ arg[1] = 50
    /\ result[1] = "Low Stock"

\* C20: a normalized record has a quantity that is an integer >= 0 and a
\* price that is >= 0
C20_QuantityAndPriceRange ==
    result # <<>>
    => /\ ~result[1].quantity.nan
       /\ result[1].quantity.h >= 0 /\ result[1].quantity.h % 100 = 0
       /\ ~result[1].price.nan /\ result[1].price.h >= 0

\* C21: the status of a normalized record is getStatusFromQuantity of the
\* record's own quantity, whatever the row's Status column holds
C21_StatusAlwaysDerived ==
    result # <<>>
    => \A i \in 1..Len(result) :
          result[i].status = getStatusFromQuantity(result[i].quantity)

\* a row that says Out of Stock with a quantity of 7 has become a record
\* that is Low Stock
C21_Witness ==
    /\ result # <<>>
    /\ findValue(arg[1], {"status"}) = S("Out of Stock")
    /\ result[1].quantity = [nan |-> FALSE, h |-> 700]
    /\ result[1].status = "Low Stock"

\* no key of the row is one of the field's aliases
Absent(item, keys) == \A j \in 1..Len(item) : LowerTrim(item[j][1]) \notin keys

ProductFields ==
    {"id", "name", "category", "quantity", "price", "supplier", "status", "dateAdded"}

\* C22: data.map gives one record, with all its fields, per row of the
\* payload; a field none of whose aliases is a key of the row has its
\* default; and the records installed are as many as the payload's rows
C22_TotalWithDefaults ==
    result # <<>>
    => /\ Len(result) = Len(arg)
       /\ \A prev \in {<<>>, MOCK_PRODUCTS} : Len(Install(prev, result)) = Len(arg)
       /\ \A i \in 1..Len(arg) :
             /\ DOMAIN result[i] = ProductFields
             /\ Absent(arg[i], IdKeys) => result[i].id = ""
             /\ Absent(arg[i], NameKeys) => result[i].name = "Unknown Product"
             /\ Absent(arg[i], CategoryKeys) => result[i].category = "Uncategorized"
             /\ Absent(arg[i], SupplierKeys) => result[i].supplier = "Unknown Supplier"
             /\ Absent(arg[i], QuantityKeys) => result[i].quantity = Zero
             /\ Absent(arg[i], PriceKeys) => result[i].price = Zero

\* a payload whose second row has none of the known columns has been mapped:
\* the row is there, as a record made of defaults
C22_Witness ==
    /\ result # <<>>
    /\ Len(arg) = 2 /\ arg[2] = RowNote
    /\ result[2].id = "" /\ result[2].name = "Unknown Product"
    /\ result[2].quantity = Zero /\ result[2].status = "Out of Stock"

\* C23: the record obtained by normalizing the encoding of a record equals
\* that record in every field but status, and its status is the one derived
\* from the quantity
C23_RoundTrip ==
    result # <<>>
    => /\ \A f \in ProductFields \ {"status"} : result[1][f] = arg[1][f]
       /\ result[1].status = getStatusFromQuantity(arg[1].quantity)

\* C24: handleUpdateItem for the displayed record at place i leaves the
\* record at every other place as it was
C24_EditTouchesOneRecord ==
    [][\A c \in PageClients : \A i \in 1..Len(products[c]) :
          \A q \in EditQuantities :
             handleUpdateItem(c, Edited(products[c][i], q))
             => \A j \in 1..Len(products[c]) :
                   j # i => products'[c][j] = products[c][j]]_vars

\* C25: after handleAddItem the table holds a record whose id none of the
\* records before had
C25_AddAssignsFreshId ==
    [][\A c \in PageClients : \A item \in NewItems :
          handleAddItem(c, item)
          => \E k \in 1..Len(products'[c]) :
                products'[c][k].id \notin
                   {products[c][i].id : i \in 1..Len(products[c])}]_vars

=============================================================================
